---- MODULE Spec2Model ----
(***************************************************************************)
(* Model of src/source.py: the DataExtractor of the document_parsing       *)
(* repository.  extract_data routes a (text, doc_type) pair to a per-type  *)
(* strategy that seeds a working dict by regular expressions, asks the     *)
(* model once, parses the reply tolerantly, merges and prunes.             *)
(*                                                                         *)
(* Python values are modelled as strings: None is the string "None", a     *)
(* str is any other string, the empty list is "[]", an int is "42".  A     *)
(* dict is a function from keys to values.  A model reply is a sequence of *)
(* tokens: the characters of the markdown fence and of whitespace one by   *)
(* one, and the JSON text token by token ("{", key, ":", value, ",", "}"). *)
(***************************************************************************)
EXTENDS Integers, Sequences, FiniteSets, TLC

VARIABLES client, pc, docType, text, extracted, reply, parsed, result, calls

vars == <<client, pc, docType, text, extracted, reply, parsed, result, calls>>

(* ------------------------------ bounds -------------------------------- *)

\* Number of extract_data calls issued concurrently on one extractor.
NumCalls == 2

Calls == 1..NumCalls

(* ------------------------- Python values ------------------------------ *)

None == "None"

EmptyList == "[]"

IntVal == "42"

EmptyDict == [k \in {} |-> None]

\* dict.update(other): keys of other overwrite, the rest is kept.
DictUpdate(d, other) ==
    [k \in (DOMAIN d) \cup (DOMAIN other) |->
        IF k \in DOMAIN other THEN other[k] ELSE d[k]]

(* ------------------------- schema registry ---------------------------- *)

InvoiceData ==
    {"invoice_number", "invoice_date", "due_date", "vendor_name",
     "customer_name", "total_amount", "currency", "items"}

ReceiptData ==
    {"store_name", "transaction_date", "total_amount", "currency", "items"}

ContractSummaryData ==
    {"contract_title", "parties", "effective_date",
     "termination_clause_summary", "governing_law"}

WorkersCompPolicyData ==
    {"name_insured", "other_named_insured", "mailing_address", "policy_number",
     "policy_period_start", "policy_period_end", "issuing_company", "premium",
     "paid_in_full_discount", "miscellaneous_premium", "location",
     "general_liability_limits", "employers_liability_limits", "deductible",
     "terrorism_coverage", "exclusions_summary", "additional_interest",
     "forms_and_endorsements", "business_classification", "retro_date",
     "prior_and_pending_date", "continuity_date", "underlying_insurance"}

KnownTypes == {"invoice", "receipt", "contract_summary", "workers_comp"}

\* The pydantic model a strategy validates against.
ModelFields(s) ==
    CASE s = "invoice" -> InvoiceData
      [] s = "receipt" -> ReceiptData
      [] s = "contract_summary" -> ContractSummaryData
      [] s = "workers_comp" -> WorkersCompPolicyData
      [] OTHER -> {}

\* Fields annotated Optional[List[...]].
ListFields ==
    {"items", "parties", "other_named_insured", "additional_interest",
     "forms_and_endorsements"}

\* Fields annotated Optional[Dict[str, str]].
DictFields == {"general_liability_limits", "employers_liability_limits"}

\* The declared default of a field: [] for InvoiceData.items,
\* ReceiptData.items and ContractSummaryData.parties, None for all others.
FieldDefault(s, f) ==
    IF (s \in {"invoice", "receipt"} /\ f = "items")
       \/ (s = "contract_summary" /\ f = "parties")
    THEN EmptyList
    ELSE None

\* Python type of a value.
TypeOf(v) ==
    CASE v = None -> "NoneType"
      [] v = EmptyList -> "list"
      [] v = IntVal -> "int"
      [] OTHER -> "str"

\* pydantic validation of one value against the annotation of field f:
\* every field is Optional, a str field takes a str only, a list field a list.
FieldAccepts(f, v) ==
    \/ TypeOf(v) = "NoneType"
    \/ f \in ListFields /\ TypeOf(v) = "list"
    \/ f \in DictFields /\ TypeOf(v) = "dict"
    \/ f \notin ListFields \cup DictFields /\ TypeOf(v) = "str"

\* Whether Model(**kw) / Model.model_validate(kw) succeeds: undeclared keys
\* are ignored, declared keys must validate.
Validates(s, kw) ==
    \A k \in (DOMAIN kw) \cap ModelFields(s) : FieldAccepts(k, kw[k])

\* The model instance built from keyword arguments kw: its field values and
\* the set of fields that were explicitly set (model_fields_set).
Construct(s, kw) ==
    [vals |-> [f \in ModelFields(s) |->
                  IF f \in DOMAIN kw THEN kw[f] ELSE FieldDefault(s, f)],
     fields_set |-> (DOMAIN kw) \cap ModelFields(s)]

\* instance.dict(exclude_unset=True)
DictExcludeUnset(inst) == [f \in inst.fields_set |-> inst.vals[f]]

\* instance.dict(exclude_none=True)
DictExcludeNone(inst) ==
    [f \in {g \in DOMAIN inst.vals : inst.vals[g] # None} |-> inst.vals[f]]

(* ----------------------- strings and JSON text ------------------------ *)

\* The backquote character of a markdown fence.
Backtick == "<backquote>"

Quote == "\""

Newline == "\n"

Whitespace == {" ", Newline}

\* The fence-with-tag literal of str.startswith, character by character.
FenceOpen == <<Backtick, Backtick, Backtick, "j", "s", "o", "n">>

\* The bare fence literal of str.endswith.
FenceClose == <<Backtick, Backtick, Backtick>>

\* llm_output_str.strip()[7:] drops this many characters.
OpenSliceLen == 7

\* llm_output_str[:-3] drops this many characters.
CloseSliceLen == 3

\* Positions of s that hold no whitespace.
InkPositions(s) == {i \in DOMAIN s : s[i] \notin Whitespace}

Least(S) == CHOOSE i \in S : \A j \in S : i <= j

Greatest(S) == CHOOSE i \in S : \A j \in S : j <= i

\* s from its first to its last character that is no whitespace.
Trimmed(s) ==
    IF InkPositions(s) = {} THEN <<>>
    ELSE SubSeq(s, Least(InkPositions(s)), Greatest(InkPositions(s)))

\* str.strip().  The argument is bound to its value first, so that the
\* positions are counted on one string.
Strip(s) == CHOOSE r \in {Trimmed(t) : t \in {s}} : TRUE

\* str.startswith(prefix)
StartsWith(s, prefix) ==
    Len(s) >= Len(prefix) /\ SubSeq(s, 1, Len(prefix)) = prefix

\* str.endswith(suffix)
EndsWith(s, suffix) ==
    Len(s) >= Len(suffix)
    /\ SubSeq(s, Len(s) - Len(suffix) + 1, Len(s)) = suffix

\* s[n:]
SliceFrom(s, n) == SubSeq(s, n + 1, Len(s))

\* s[:-n]
SliceDropLast(s, n) == SubSeq(s, 1, Len(s) - n)

\* Tokens of JSON text that are not the content of a string literal.
JsonPunctuation ==
    {"{", "}", ":", ",", Quote, "null", EmptyList, IntVal, Backtick} \cup Whitespace

\* A decoded JSON value: a failure is ok = FALSE (json.JSONDecodeError).
JsonFail == [ok |-> FALSE, kind |-> "none", obj |-> EmptyDict, val |-> None]

JsonScalar(v) == [ok |-> TRUE, kind |-> "scalar", obj |-> EmptyDict, val |-> v]

JsonObject(o) == [ok |-> TRUE, kind |-> "object", obj |-> o, val |-> None]

\* Whether s holds a string literal "..." at position i.
StringAt(s, i) ==
    /\ i >= 1
    /\ i + 2 <= Len(s)
    /\ s[i] = Quote
    /\ s[i + 1] \notin JsonPunctuation
    /\ s[i + 2] = Quote

\* The number of tokens of the scalar at position i of s (null, [], a
\* number, a string literal), 0 when there is none.
ValueLen(s, i) ==
    IF i < 1 \/ i > Len(s) THEN 0
    ELSE IF s[i] \in {"null", EmptyList, IntVal} THEN 1
    ELSE IF StringAt(s, i) THEN 3
    ELSE 0

\* The Python value of the scalar at position i of s.
ValueAt(s, i) ==
    IF s[i] = "null" THEN None
    ELSE IF s[i] \in {EmptyList, IntVal} THEN s[i]
    ELSE s[i + 1]

\* Positions of the colons of s.
Colons(s) == {i \in DOMAIN s : s[i] = ":"}

\* The colon at i sits in a member "key": value that is followed by a comma
\* and a next member, or by the brace that ends the text.
MemberAt(s, i) ==
    /\ StringAt(s, i - 3)
    /\ ValueLen(s, i + 1) > 0
    /\ i + ValueLen(s, i + 1) + 1 <= Len(s)
    /\ \/ /\ s[i + ValueLen(s, i + 1) + 1] = ","
          /\ i + ValueLen(s, i + 1) + 5 \in Colons(s)
       \/ /\ s[i + ValueLen(s, i + 1) + 1] = "}"
          /\ i + ValueLen(s, i + 1) + 1 = Len(s)

\* Whether s is the text of an object: braces around members that follow
\* one another from the first token to the last.
IsObjectText(s) ==
    /\ Len(s) >= 2
    /\ s[1] = "{"
    /\ s[Len(s)] = "}"
    /\ \/ Len(s) = 2
       \/ 5 \in Colons(s) /\ \A i \in Colons(s) : MemberAt(s, i)

\* The dict of an object text: a repeated key keeps its last value.
ObjectOf(s) ==
    [k \in {s[i - 2] : i \in Colons(s)} |->
        ValueAt(s, Greatest({i \in Colons(s) : s[i - 2] = k}) + 1)]

\* The decoder on text without surrounding whitespace.
Decode(s) ==
    IF IsObjectText(s) THEN JsonObject(ObjectOf(s))
    ELSE IF s # <<>> /\ ValueLen(s, 1) = Len(s) THEN JsonScalar(ValueAt(s, 1))
    ELSE JsonFail

\* json.loads(text): surrounding whitespace is skipped, one value is decoded
\* and anything left over is an error ("Extra data").
JsonLoads(s) == CHOOSE v \in {Decode(t) : t \in {Strip(s)}} : TRUE

(* ---------------------- _parse_llm_json_output ------------------------ *)

\* A reply of the model call: the call raised, or message.content is None,
\* or message.content is a string.
RaisedReply == [kind |-> "raise", content |-> <<>>]

NoneReply == [kind |-> "none", content |-> <<>>]

TextReply(s) == [kind |-> "text", content |-> s]

NoReply == [kind |-> "pending", content |-> <<>>]

\* Unfenced with the closing fence removed whether or not the text opens
\* with a fence.
UnfencedLoose(s) ==
    LET t == IF StartsWith(Strip(s), FenceOpen) THEN SliceFrom(Strip(s), OpenSliceLen) ELSE Strip(s)
    IN  IF EndsWith(t, FenceClose) THEN SliceDropLast(t, CloseSliceLen) ELSE t

\* FenceStripped by UnfencedLoose.
FenceStrippedLoose(s) == CHOOSE r \in {UnfencedLoose(t) : t \in {s}} : TRUE

\* Lines 315-318 on the string s: the text handed to json.loads.
Unfenced(s) ==
    IF StartsWith(Strip(s), FenceOpen)
    THEN LET r == SliceFrom(Strip(s), OpenSliceLen)
         IN  IF EndsWith(r, FenceClose) THEN SliceDropLast(r, CloseSliceLen) ELSE r
    ELSE s

\* Lines 315-318, from the value of llm_output_str.
FenceStripped(s) == CHOOSE r \in {Unfenced(t) : t \in {s}} : TRUE

\* What _parse_llm_json_output does: it returns a model instance (ok), it
\* returns None, or an exception leaves it (raised).
ParseNone(s) == [ok |-> FALSE, raised |-> FALSE, inst |-> Construct(s, EmptyDict)]

ParseModel(inst) == [ok |-> TRUE, raised |-> FALSE, inst |-> inst]

ParseRaises(s) == [ok |-> FALSE, raised |-> TRUE, inst |-> Construct(s, EmptyDict)]

\* The outcome of the try block, lines 314-321: the exception class raised
\* ("" when none) and the instance built.  None.strip() raises
\* AttributeError, json.loads raises JSONDecodeError, model_validate raises
\* ValidationError when data is no mapping or a declared key fails to validate.
TryBlock(r, s) ==
    IF r.kind # "text" THEN [exc |-> "AttributeError", inst |-> Construct(s, EmptyDict)]
    ELSE LET data == JsonLoads(FenceStripped(r.content))
         IN  IF ~data.ok
             THEN [exc |-> "JSONDecodeError", inst |-> Construct(s, EmptyDict)]
             ELSE IF data.kind = "object" /\ Validates(s, data.obj)
             THEN [exc |-> "", inst |-> Construct(s, data.obj)]
             ELSE [exc |-> "ValidationError", inst |-> Construct(s, EmptyDict)]

\* Caught without the `except Exception` clause.
CaughtValueErrors(exc) == exc \in {"JSONDecodeError", "ValidationError", "ValueError"}

\* Lines 322-328: `except (json.JSONDecodeError, ValueError)` catches the
\* decoder's and the validator's errors (both are ValueErrors), and
\* `except Exception` every other one.
Caught(exc) ==
    \/ exc \in {"JSONDecodeError", "ValidationError", "ValueError"}
    \/ TRUE

\* _parse_llm_json_output(llm_output_str, model)
ParseLlmJsonOutput(r, s) ==
    LET t == TryBlock(r, s)
    IN  IF t.exc = "" THEN ParseModel(t.inst)
        ELSE IF Caught(t.exc) THEN ParseNone(s)
        ELSE ParseRaises(s)

(* --------------------------- routing ---------------------------------- *)

\* Route with the tag lower-cased and trimmed before the comparison.
RouteNormalised(t) ==
    IF t \in {"invoice", "Invoice", " invoice"} THEN "invoice"
    ELSE IF t = "receipt" THEN "receipt"
    ELSE IF t = "contract_summary" THEN "contract_summary"
    ELSE IF t = "workers_comp" THEN "workers_comp"
    ELSE "generic"

\* extract_data, lines 78-88: the strategy a doc_type tag selects, compared
\* with == against the four literals; anything else is the generic fallback.
Route(t) ==
    IF t = "invoice" THEN "invoice"
    ELSE IF t = "receipt" THEN "receipt"
    ELSE IF t = "contract_summary" THEN "contract_summary"
    ELSE IF t = "workers_comp" THEN "workers_comp"
    ELSE "generic"

\* Strategies that seed the working dict by regular expressions.
SeededStrategies == {"invoice", "receipt"}

(* ------------------------- pre-extraction ----------------------------- *)

\* A document text is modelled by the set of regular expressions of the
\* strategies that match it; each match captures a fixed string.
InvoicePatterns ==
    {"invoice_number", "invoice_date", "due_date", "total_amount", "currency_symbol"}

ReceiptPatterns == {"store_name"}

\* Lines 95-120 and 164-169: the dict `extracted` after the regex stage.
\* currency is written only inside the total_amount branch, with "$" as the
\* default when no symbol matched.
PreExtract(s, x) ==
    IF s = "invoice"
    THEN [k \in ({"invoice_number", "invoice_date", "due_date", "total_amount"} \cap x)
               \cup (IF "total_amount" \in x THEN {"currency"} ELSE {}) |->
            CASE k = "invoice_number" -> "A1"
              [] k = "invoice_date" -> "01/02/2024"
              [] k = "due_date" -> "02/02/2024"
              [] k = "total_amount" -> "100.00"
              [] k = "currency" -> IF "currency_symbol" \in x THEN "EUR" ELSE "$"]
    ELSE IF s = "receipt"
    THEN [k \in {"store_name"} \cap x |-> "ACME"]
    ELSE EmptyDict

(* ------------------------- call results ------------------------------- *)

Pending == [kind |-> "pending", dict |-> EmptyDict, val |-> None]

ReturnNone == [kind |-> "None", dict |-> EmptyDict, val |-> None]

ReturnDict(d) == [kind |-> "dict", dict |-> d, val |-> None]

ReturnScalar(v) == [kind |-> "scalar", dict |-> EmptyDict, val |-> v]

\* An exception that leaves extract_data.
Raises == [kind |-> "raised", dict |-> EmptyDict, val |-> None]

\* `return Model(**extracted).dict(exclude_none=True)`: the constructor
\* raises pydantic.ValidationError on a value of the wrong type.
ModelRecord(s, kw) ==
    IF Validates(s, kw)
    THEN ReturnDict(DictExcludeNone(Construct(s, kw)))
    ELSE Raises

\* WithoutClient with every strategy giving up when no client is set.
WithoutClientNone(s, kw) == ReturnNone

\* The statement after `if self.openai_client:` when no client is set
\* (lines 158, 198, 231-232, 273-274, 281-283).
WithoutClient(s, kw) ==
    IF s \in SeededStrategies THEN ModelRecord(s, kw) ELSE ReturnNone

\* str(e) of the exception of a failed model call, and of json.loads(None).
ModelErrorText == "model call failed"

TypeErrorText == "the JSON object must be str, bytes or bytearray, not NoneType"

ErrorRecord(x, msg) == ("extracted_text" :> x) @@ ("error" :> msg)

RawOutputRecord(x, raw) == ("extracted_text" :> x) @@ ("llm_raw_output" :> raw)

\* ExceptHandler with the invoice handler copied to every typed strategy.
ExceptHandlerPartial(s, kw, x, msg) ==
    IF s = "generic" THEN ReturnDict(ErrorRecord(x, msg)) ELSE ModelRecord(s, kw)

\* The `except Exception` handler of a strategy (lines 153-156, 194-196,
\* 228-230, 270-272, 307-309).
ExceptHandler(s, kw, x, msg) ==
    IF s \in SeededStrategies THEN ModelRecord(s, kw)
    ELSE IF s = "generic" THEN ReturnDict(ErrorRecord(x, msg))
    ELSE ReturnNone

\* Lines 147-152 (and 191-193, 225-227, 267-269): the working dict after
\* the merge of the parsed model.
Merged(kw, p) ==
    IF p.ok THEN DictUpdate(kw, DictExcludeUnset(p.inst)) ELSE kw

\* The return of the try block of a typed strategy; a ValidationError in it
\* is caught by the strategy's own handler.
TypedReturn(s, kw, x) ==
    IF Validates(s, kw) THEN ModelRecord(s, kw)
    ELSE ExceptHandler(s, kw, x, "validation error")

\* The rest of the try block of a typed strategy once the parser is done: an
\* exception out of the parser goes to the strategy's handler with the
\* working dict as the regex stage left it.
AfterParse(s, kw, p, x) ==
    IF p.raised THEN ExceptHandler(s, kw, x, "parser error")
    ELSE TypedReturn(s, Merged(kw, p), x)

\* Lines 300-309: the generic strategy on a reply.  json.loads(None) raises
\* TypeError, which only the outer handler catches.
GenericReturn(r, x) ==
    IF r.kind = "none" THEN ReturnDict(ErrorRecord(x, TypeErrorText))
    ELSE LET data == JsonLoads(r.content)
         IN  IF ~data.ok THEN ReturnDict(RawOutputRecord(x, r.content))
             ELSE IF data.kind = "object" THEN ReturnDict(data.obj)
             ELSE ReturnScalar(data.val)

(* --------------------- inputs drawn by the model ---------------------- *)

DocTypes == KnownTypes \cup {"foo", "Invoice", " invoice"}

\* Texts by the patterns that match them.  "due date: d" also matches the
\* invoice-date expression, and the currency symbol is only looked for next
\* to a total.
Texts(s) ==
    IF s = "invoice"
    THEN {x \in SUBSET InvoicePatterns :
            /\ "due_date" \in x => "invoice_date" \in x
            /\ "currency_symbol" \in x => "total_amount" \in x}
    ELSE IF s = "receipt" THEN SUBSET ReceiptPatterns
    ELSE {{}, {"invoice_number"}}

StringLiteral(v) == <<Quote, v, Quote>>

\* The JSON text of a value.
JsonText(v) ==
    IF v = None THEN <<"null">>
    ELSE IF v \in {EmptyList, IntVal} THEN <<v>>
    ELSE StringLiteral(v)

ReplyValues == {"B2", "USD", None, EmptyList}

\* The keys a reply may hold, per strategy: two declared fields and one
\* undeclared key.
ReplyKeys(s) ==
    CASE s = "invoice" -> <<"invoice_number", "currency", "bogus">>
      [] s = "receipt" -> <<"store_name", "items", "bogus">>
      [] s = "contract_summary" -> <<"contract_title", "parties", "bogus">>
      [] s = "workers_comp" -> <<"policy_number", "other_named_insured", "bogus">>
      [] OTHER -> <<"title", "bogus">>

\* Every member list over the keys ks, each member preceded by a comma.
RECURSIVE MemberLists(_)
MemberLists(ks) ==
    IF ks = <<>> THEN {<<>>}
    ELSE LET rest == MemberLists(Tail(ks))
         IN  rest \cup
             {<<",">> \o StringLiteral(Head(ks)) \o <<":">> \o JsonText(v) \o r :
                 v \in ReplyValues, r \in rest}

ObjectTexts(s) ==
    {<<"{">> \o (IF m = <<>> THEN m ELSE Tail(m)) \o <<"}">> : m \in MemberLists(ReplyKeys(s))}

\* Replies that are no JSON object: empty, prose, scalars, a truncated object.
OtherTexts ==
    {<<>>,
     <<"not", " ", "json", " ", "at", " ", "all">>,
     <<"null">>, <<EmptyList>>, <<IntVal>>, StringLiteral("B2"),
     <<"{">> \o StringLiteral("currency") \o <<":">>}

\* A body bare, fenced, fenced with surrounding whitespace, with one fence
\* only, with untagged fences, and with surrounding whitespace.
Wrappings(b) ==
    {b,
     FenceOpen \o <<Newline>> \o b \o <<Newline>> \o FenceClose,
     <<" ">> \o FenceOpen \o <<Newline>> \o b \o <<Newline>> \o FenceClose \o <<Newline>>,
     FenceOpen \o <<Newline>> \o b,
     b \o <<Newline>> \o FenceClose,
     FenceClose \o <<Newline>> \o b \o <<Newline>> \o FenceClose,
     <<Newline>> \o b \o <<" ">>}

Replies(s) ==
    {RaisedReply, NoneReply}
    \cup {TextReply(w) : w \in UNION {Wrappings(b) : b \in ObjectTexts(s) \cup OtherTexts}}

\* The smaller input sets of the concurrent specification.
BoundedTypes == {"invoice", "contract_summary", "foo"}

BoundedTexts(s) == IF s = "invoice" THEN {{}, {"invoice_number"}} ELSE {{}}

BoundedReplies(s) ==
    {RaisedReply, NoneReply,
     TextReply(<<"not", " ", "json">>),
     TextReply(<<"{">> \o StringLiteral(ReplyKeys(s)[1]) \o <<":">> \o JsonText("B2") \o <<"}">>),
     TextReply(FenceOpen \o <<Newline, "{">> \o StringLiteral(ReplyKeys(s)[1]) \o <<":">>
               \o JsonText(None) \o <<"}", Newline>> \o FenceClose)}

(* ----------------------------- state ---------------------------------- *)

\* Slot with the working dict kept on the extractor, shared by all calls.
SharedSlot(c) == 1

\* `extracted = {}` (lines 95, 164, 205, 238) is a local of the call: each
\* call works on its own dict.
Slot(c) == c

\* __init__, lines 66-71: the client is set iff OPENAI_API_KEY is set; no
\* call is running.
Init ==
    /\ client \in BOOLEAN
    /\ pc = [c \in Calls |-> "idle"]
    /\ docType = [c \in Calls |-> ""]
    /\ text = [c \in Calls |-> {}]
    /\ extracted = [c \in Calls |-> EmptyDict]
    /\ reply = [c \in Calls |-> NoReply]
    /\ parsed = [c \in Calls |-> ParseNone("generic")]
    /\ result = [c \in Calls |-> Pending]
    /\ calls = [c \in Calls |-> 0]

Strategy(c) == Route(docType[c])

\* extract_data(text, doc_type) up to the client test: routing and the
\* regex stage of the strategy.
Enter(c, t, x) ==
    /\ pc[c] = "idle"
    /\ docType' = [docType EXCEPT ![c] = t]
    /\ text' = [text EXCEPT ![c] = x]
    /\ extracted' = [extracted EXCEPT ![Slot(c)] = PreExtract(Route(t), x)]
    /\ pc' = [pc EXCEPT ![c] = "check"]
    /\ UNCHANGED <<client, reply, parsed, result, calls>>

Begin(c) ==
    /\ pc[c] = "idle"
    /\ \E t \in DocTypes : \E x \in Texts(Route(t)) : Enter(c, t, x)

BeginBounded(c) ==
    /\ pc[c] = "idle"
    /\ \E t \in BoundedTypes : \E x \in BoundedTexts(Route(t)) : Enter(c, t, x)

\* Every document type, on the smaller texts.
BeginAnyType(c) ==
    /\ pc[c] = "idle"
    /\ \E t \in DocTypes : \E x \in BoundedTexts(Route(t)) : Enter(c, t, x)

\* `if self.openai_client:` is false: return without a model call.
NoClient(c) ==
    /\ pc[c] = "check"
    /\ ~client
    /\ result' = [result EXCEPT ![c] = WithoutClient(Strategy(c), extracted[Slot(c)])]
    /\ pc' = [pc EXCEPT ![c] = "done"]
    /\ UNCHANGED <<client, docType, text, extracted, reply, parsed, calls>>

\* self.openai_client.chat.completions.create(...) and the read of
\* response.choices[0].message.content: one invocation, which raises or
\* yields the content r.
Invoke(c, r) ==
    /\ pc[c] = "check"
    /\ client
    /\ calls' = [calls EXCEPT ![c] = @ + 1]
    /\ reply' = [reply EXCEPT ![c] = r]
    /\ pc' = [pc EXCEPT ![c] = "replied"]
    /\ UNCHANGED <<client, docType, text, extracted, parsed, result>>

InvokeModel(c) ==
    /\ pc[c] = "check"
    /\ client
    /\ \E r \in Replies(Strategy(c)) : Invoke(c, r)

InvokeModelBounded(c) ==
    /\ pc[c] = "check"
    /\ client
    /\ \E r \in BoundedReplies(Strategy(c)) : Invoke(c, r)

\* The model call raised: the strategy's except handler returns.
ModelRaised(c) ==
    /\ pc[c] = "replied"
    /\ reply[c].kind = "raise"
    /\ result' = [result EXCEPT ![c] =
                    ExceptHandler(Strategy(c), extracted[Slot(c)], text[c], ModelErrorText)]
    /\ pc' = [pc EXCEPT ![c] = "done"]
    /\ UNCHANGED <<client, docType, text, extracted, reply, parsed, calls>>

\* Parse with one more model call when the first reply does not parse.
ParseRetry(c) ==
    /\ pc[c] = "replied"
    /\ reply[c].kind # "raise"
    /\ Route(docType[c]) # "generic"
    /\ parsed' = [parsed EXCEPT ![c] = ParseLlmJsonOutput(reply[c], Route(docType[c]))]
    /\ pc' = [pc EXCEPT ![c] =
                IF ~ParseLlmJsonOutput(reply[c], Route(docType[c])).ok /\ calls[c] < 2
                THEN "check" ELSE "parsed"]
    /\ UNCHANGED <<client, docType, text, extracted, reply, result, calls>>

\* llm_extracted_model = self._parse_llm_json_output(llm_output_str, Model)
Parse(c) ==
    /\ pc[c] = "replied"
    /\ reply[c].kind # "raise"
    /\ Strategy(c) # "generic"
    /\ parsed' = [parsed EXCEPT ![c] = ParseLlmJsonOutput(reply[c], Strategy(c))]
    /\ pc' = [pc EXCEPT ![c] = "parsed"]
    /\ UNCHANGED <<client, docType, text, extracted, reply, result, calls>>

\* `if llm_extracted_model: extracted.update(...)` and the return.
MergeReturn(c) ==
    /\ pc[c] = "parsed"
    /\ extracted' = [extracted EXCEPT ![Slot(c)] = Merged(extracted[Slot(c)], parsed[c])]
    /\ result' = [result EXCEPT ![c] =
                    AfterParse(Strategy(c), extracted[Slot(c)], parsed[c], text[c])]
    /\ pc' = [pc EXCEPT ![c] = "done"]
    /\ UNCHANGED <<client, docType, text, reply, parsed, calls>>

\* _generic_llm_extraction on the reply: json.loads and its handlers.
GenericParse(c) ==
    /\ pc[c] = "replied"
    /\ reply[c].kind # "raise"
    /\ Strategy(c) = "generic"
    /\ result' = [result EXCEPT ![c] = GenericReturn(reply[c], text[c])]
    /\ pc' = [pc EXCEPT ![c] = "done"]
    /\ UNCHANGED <<client, docType, text, extracted, reply, parsed, calls>>

\* The steps of a call after the model call has returned or raised.
Finish(c) == ModelRaised(c) \/ Parse(c) \/ MergeReturn(c) \/ GenericParse(c)

\* One call of extract_data on the extractor.
Next ==
    \E c \in {1} :
        \/ Begin(c)
        \/ NoClient(c)
        \/ InvokeModel(c)
        \/ ModelRaised(c)
        \/ Parse(c)
        \/ MergeReturn(c)
        \/ GenericParse(c)

Spec == Init /\ [][Next]_vars

\* One call on the smaller input sets.
FairNext ==
    \E c \in {1} :
        \/ BeginAnyType(c)
        \/ NoClient(c)
        \/ InvokeModelBounded(c)
        \/ ModelRaised(c)
        \/ Parse(c)
        \/ MergeReturn(c)
        \/ GenericParse(c)

\* A call that has its reply runs to its return: the code after the model
\* call is straight-line and synchronous.  The model call itself has no
\* timeout and may never return, so no fairness is stated for it.
FairSpec == Init /\ [][FairNext]_vars /\ WF_vars(Finish(1))

\* NumCalls calls of extract_data on one extractor, their steps interleaved.
ConcNext ==
    \E c \in Calls :
        \/ BeginBounded(c)
        \/ NoClient(c)
        \/ InvokeModelBounded(c)
        \/ ModelRaised(c)
        \/ Parse(c)
        \/ MergeReturn(c)
        \/ GenericParse(c)

ConcSpec == Init /\ [][ConcNext]_vars

(* ============================ properties ============================== *)

Done(c) == pc[c] = "done"

\* The dict the regex stage of call c produced from its text.
Seed(c) == PreExtract(Route(docType[c]), text[c])

\* The result of call c is a record built from the regex stage alone: every
\* seeded field with its seeded value, and nothing else but declared
\* defaults.
SeedOnlyRecord(c) ==
    /\ result[c].kind = "dict"
    /\ \A f \in DOMAIN Seed(c) :
          f \in DOMAIN result[c].dict /\ result[c].dict[f] = Seed(c)[f]
    /\ \A f \in (DOMAIN result[c].dict) \ (DOMAIN Seed(c)) :
          result[c].dict[f] = FieldDefault(docType[c], f)

\* A value that is absent: null or empty.
Absent(v) == v \in {None, EmptyList}

\* C1: for every known document type, a record returned by extract_data
\* holds only fields declared in the type's schema and no field whose value
\* is absent (null or empty), on every path.
C1_DeclaredAndPruned ==
    \A c \in Calls :
        (Done(c) /\ docType[c] \in KnownTypes /\ result[c].kind = "dict") =>
            /\ DOMAIN result[c].dict \subseteq ModelFields(docType[c])
            /\ \A f \in DOMAIN result[c].dict : ~Absent(result[c].dict[f])

\* C2: merge precedence in the invoice strategy: every field the model
\* returned holds the model's value in the result (a null as absence), every
\* field only the seed holds keeps the seed's value, and with seed
\* {invoice_number: "A1"} and the parsed model record {invoice_number: "B2",
\* currency: "USD"} the result is exactly {invoice_number: "B2", currency:
\* "USD"}, with no other key.
C2_MergeExample ==
    \A c \in Calls :
        (Done(c) /\ docType[c] = "invoice" /\ parsed[c].ok) =>
            /\ \A f \in parsed[c].inst.fields_set :
                  IF parsed[c].inst.vals[f] = None
                  THEN f \notin DOMAIN result[c].dict
                  ELSE /\ f \in DOMAIN result[c].dict
                       /\ result[c].dict[f] = parsed[c].inst.vals[f]
            /\ \A f \in (DOMAIN Seed(c)) \ parsed[c].inst.fields_set :
                  f \in DOMAIN result[c].dict /\ result[c].dict[f] = Seed(c)[f]
            /\ (/\ Seed(c) = [invoice_number |-> "A1"]
                /\ DictExcludeUnset(parsed[c].inst) = [invoice_number |-> "B2", currency |-> "USD"])
               => result[c] = ReturnDict([invoice_number |-> "B2", currency |-> "USD"])

ParseFailed(c) ==
    /\ Done(c) /\ client /\ docType[c] \in KnownTypes
    /\ reply[c].kind # "raise" /\ ~parsed[c].ok

\* C4: when the reply of a known type fails to parse, extract_data does not
\* raise and returns the record of the regex stage alone for invoice and
\* receipt, and None for contract_summary and workers_comp.
C4_ParseFailureFallback ==
    \A c \in Calls :
        ParseFailed(c) =>
            /\ result[c].kind # "raised"
            /\ docType[c] \in {"invoice", "receipt"} => SeedOnlyRecord(c)
            /\ docType[c] \in {"contract_summary", "workers_comp"} => result[c] = ReturnNone

\* Call c returned the JSON value its reply decodes to.
Decoded(c) ==
    /\ reply[c].kind = "text"
    /\ JsonLoads(reply[c].content).ok
    /\ result[c] = IF JsonLoads(reply[c].content).kind = "object"
                   THEN ReturnDict(JsonLoads(reply[c].content).obj)
                   ELSE ReturnScalar(JsonLoads(reply[c].content).val)

\* Call c returned a diagnostic record: the text, and the raw reply or an
\* error description.
Diagnostic(c) ==
    /\ result[c].kind = "dict"
    /\ "extracted_text" \in DOMAIN result[c].dict
    /\ result[c].dict["extracted_text"] = text[c]
    /\ \/ DOMAIN result[c].dict = {"extracted_text", "error"}
       \/ /\ DOMAIN result[c].dict = {"extracted_text", "llm_raw_output"}
          /\ result[c].dict["llm_raw_output"] = reply[c].content

Returned(c) == Done(c) /\ result[c].kind \notin {"pending", "raised"}

\* C7: a call makes at most one model invocation whatever the type and the
\* outcome, and once the invocation has failed or replied (parseably or not)
\* the call ends with a result.
C7_AtMostOneInvocation ==
    /\ [](\A c \in Calls : calls[c] <= 1)
    /\ \A c \in Calls : (pc[c] = "replied") ~> Returned(c)

\* A call whose reply did not parse ended after its one invocation.
C7_Witness ==
    /\ Returned(1) /\ calls[1] = 1
    /\ docType[1] = "invoice" /\ reply[1].kind = "text" /\ ~parsed[1].ok

\* The parser has run in call c.
ParserRan(c) ==
    /\ pc[c] \in {"parsed", "done"}
    /\ docType[c] \in KnownTypes
    /\ reply[c].kind \in {"none", "text"}

\* t without its opening fence marker and, if what is left ends with the
\* closing marker, without that.
WithoutFence(t) ==
    IF EndsWith(SubSeq(t, Len(FenceOpen) + 1, Len(t)), FenceClose)
    THEN SubSeq(t, Len(FenceOpen) + 1, Len(t) - Len(FenceClose))
    ELSE SubSeq(t, Len(FenceOpen) + 1, Len(t))

\* The text the parser is to decode for the reply w: the trimmed reply
\* without its fence when it opens with the marker, else w as it is.
TextToDecode(w) ==
    IF StartsWith(Strip(w), FenceOpen) THEN WithoutFence(Strip(w)) ELSE w

\* The record the bare JSON text b stands for under schema s, or None.
RecordOf(b, s) ==
    IF JsonLoads(b).ok /\ JsonLoads(b).kind = "object" /\ Validates(s, JsonLoads(b).obj)
    THEN ParseModel(Construct(s, JsonLoads(b).obj))
    ELSE ParseNone(s)

\* C8: a reply that, once trimmed, opens with the fence marker is parsed
\* without the marker and without a closing marker, so that a fenced object
\* parses to the record of the bare object; a reply without a leading fence
\* is decoded as it is; a reply with a trailing fence only fails to parse.
C8_FenceStripping ==
    \A c \in Calls :
        (ParserRan(c) /\ reply[c].kind = "text") =>
            /\ parsed[c] = RecordOf(TextToDecode(reply[c].content), docType[c])
            /\ (/\ StartsWith(reply[c].content, FenceOpen \o <<Newline>>)
                /\ EndsWith(reply[c].content, <<Newline>> \o FenceClose)
                /\ Len(reply[c].content) >= Len(FenceOpen) + Len(FenceClose) + 2)
               => parsed[c] = RecordOf(SubSeq(reply[c].content, Len(FenceOpen) + 2,
                                              Len(reply[c].content) - Len(FenceClose) - 1),
                                       docType[c])
            /\ ~StartsWith(Strip(reply[c].content), FenceOpen)
               => parsed[c] = RecordOf(reply[c].content, docType[c])
            /\ (/\ ~StartsWith(Strip(reply[c].content), FenceOpen)
                /\ EndsWith(Strip(reply[c].content), FenceClose))
               => ~parsed[c].ok

\* A fenced object was parsed to its record.
C8_Witness ==
    /\ pc[1] = "parsed" /\ docType[1] = "invoice"
    /\ reply[1].content =
          FenceOpen \o <<Newline, "{">> \o StringLiteral("invoice_number") \o <<":">>
          \o StringLiteral("B2") \o <<"}", Newline>> \o FenceClose
    /\ parsed[1].ok
    /\ DictExcludeUnset(parsed[1].inst) = [invoice_number |-> "B2"]

\* C9: no exception leaves the parser, whatever the reply and the schema; it
\* returns a record only when the fence-stripped text is valid JSON that
\* conforms to the schema, and a key the schema does not declare is dropped
\* without making the parse fail.
C9_ParserTotal ==
    \A c \in Calls :
        ParserRan(c) =>
            /\ ~parsed[c].raised
            /\ parsed[c].ok <=>
                  /\ reply[c].kind = "text"
                  /\ JsonLoads(TextToDecode(reply[c].content)).ok
                  /\ JsonLoads(TextToDecode(reply[c].content)).kind = "object"
                  /\ \A k \in (DOMAIN JsonLoads(TextToDecode(reply[c].content)).obj)
                                 \cap ModelFields(docType[c]) :
                        FieldAccepts(k, JsonLoads(TextToDecode(reply[c].content)).obj[k])
            /\ parsed[c].ok =>
                  /\ DOMAIN parsed[c].inst.vals = ModelFields(docType[c])
                  /\ parsed[c].inst.fields_set \subseteq ModelFields(docType[c])

\* A reply whose content is missing went through the parser, which returned
\* None.
C9_Witness ==
    /\ pc[1] = "parsed" /\ docType[1] = "receipt"
    /\ reply[1] = NoneReply
    /\ parsed[1] = ParseNone("receipt")

\* extract_data(text, doc_type) run alone on an extractor, with r the
\* outcome of its model call.
ExtractData(cl, t, x, r) ==
    IF ~cl THEN WithoutClient(Route(t), PreExtract(Route(t), x))
    ELSE IF r.kind = "raise"
    THEN ExceptHandler(Route(t), PreExtract(Route(t), x), x, ModelErrorText)
    ELSE IF Route(t) = "generic" THEN GenericReturn(r, x)
    ELSE AfterParse(Route(t), PreExtract(Route(t), x), ParseLlmJsonOutput(r, Route(t)), x)

\* C10: under every interleaving of the steps of concurrent calls, each
\* call returns what it returns when run alone on its text, document type
\* and model reply.
C10_CallsDoNotInterfere ==
    \A c \in Calls :
        Done(c) => result[c] = ExtractData(client, docType[c], text[c], reply[c])

\* Two invoice calls with different texts have both returned, each with its
\* own record.
C10_Witness ==
    /\ Done(1) /\ Done(2) /\ client
    /\ docType[1] = "invoice" /\ text[1] = {"invoice_number"}
    /\ docType[2] = "invoice" /\ text[2] = {}
    /\ parsed[1].ok /\ parsed[2].ok
    /\ "invoice_number" \in DOMAIN result[1].dict
    /\ "invoice_number" \notin DOMAIN result[2].dict

\* C11: in the invoice and receipt strategies, when the model reply parses,
\* every field the seed holds keeps its seeded value in the returned record
\* whenever the reply omits the field or gives it explicitly as null.
C11_SeedKeptUnlessModelValue ==
    \A c \in Calls :
        (Done(c) /\ docType[c] \in SeededStrategies /\ parsed[c].ok) =>
            \A f \in DOMAIN Seed(c) :
                (f \notin parsed[c].inst.fields_set \/ parsed[c].inst.vals[f] = None)
                    => /\ result[c].kind = "dict"
                       /\ f \in DOMAIN result[c].dict
                       /\ result[c].dict[f] = Seed(c)[f]

====
